---------------------------- MODULE Spec2Model ----------------------------
(***************************************************************************)
(* Model of semparse/data/drop_dataset_reader.py: DropDatasetReader._read  *)
(* (the corpus loader, a generator) and DropDatasetReader.text_to_instance *)
(* (action-space indexer, logical-form linearizer, agenda builder and      *)
(* instance builder).                                                      *)
(*                                                                         *)
(* A production-rule string is modelled by a number in Rules: two rules    *)
(* are the same string iff they are the same number.  A logical-form       *)
(* string is modelled by what the world does with it: the outcome of       *)
(* world.parse_logical_form and, when it parses, the derivation returned   *)
(* by world.get_action_sequence.  The tarball extraction at the head of    *)
(* _read changes only the directories' location and is not modelled.       *)
(***************************************************************************)
EXTENDS Integers, Sequences, FiniteSets, TLC

VARIABLES
    config,                     \* the reader's constructor arguments
    pc,                         \* position of _read / of the text_to_instance call
    world,                      \* world of the text_to_instance call of the latest step
    offline_search_output,      \* candidates of that call
    result,                     \* outcome of that call
    num_missing_logical_forms,
    num_qa_json,
    num_missing_tables,
    num_all_tables,
    num_instances,
    passage_index,              \* number of passages of data.items() taken so far
    qa_index,                   \* number of qa_pairs of the current passage taken so far
    passage,                    \* the current passage: table artifact present?, number of qa_pairs
    yielded,                    \* the qa pair of the instance the generator yielded last
    event                       \* what the latest step of _read did

vars == <<config, pc, world, offline_search_output, result,
          num_missing_logical_forms, num_qa_json, num_missing_tables,
          num_all_tables, num_instances, passage_index, qa_index, passage,
          yielded, event>>

-----------------------------------------------------------------------------
(* Bounds *)

NumRules == 2          \* distinct production-rule strings
MaxActions == 2        \* length of world.all_possible_actions()
MaxAgenda == 2         \* length of world.get_agenda()
MaxSymbols == 3        \* size of a candidate list: its derivation steps and failing forms
MaxCap == 1            \* max_offline_logical_forms
MaxPassages == 2       \* passages in the dataset file
MaxQaPairs == 2        \* qa_pairs of one passage

Rules == 1..NumRules

SeqsOf(S, lo, hi) == UNION {[1..n -> S] : n \in lo..hi}

Min(a, b) == IF a <= b THEN a ELSE b

-----------------------------------------------------------------------------
(* The collaborators, as far as text_to_instance uses them *)

\* Outcomes of world.parse_logical_form: an expression, the defined parse
\* error, or any other exception.
ParseOutcomes == {"ok", "ParsingError", "FileNotFoundError", "RuntimeError"}

\* The logical forms of size k under one world: those that parse into a
\* derivation of k rules over the given rules and, of size 1, those that
\* fail to parse.  The derivation is read only when the form parses.
LogicalForms(rules, k) ==
    [parse : {"ok"}, derivation : [1..k -> rules]]
    \cup (IF k = 1 THEN [parse : ParseOutcomes \ {"ok"}, derivation : {<<>>}] ELSE {})

\* The lists of logical forms whose sizes add up to s.
RECURSIVE FormListsOfSize(_, _)
FormListsOfSize(rules, s) ==
    IF s = 0 THEN {<<>>}
    ELSE UNION {{<<f>> \o rest : f \in LogicalForms(rules, k),
                                 rest \in FormListsOfSize(rules, s - k)} : k \in 1..s}

\* all_possible_actions(): a listing of rules, which may list a rule twice.
\* Rules are numbered in the order in which the listing first names them.
Listings(maxActions) ==
    {a \in SeqsOf(Rules, 0, maxActions) :
        \A i \in DOMAIN a : a[i] = 1 \/ \E j \in 1..(i - 1) : a[j] >= a[i] - 1}

\* A world: all_possible_actions() and get_agenda().
Worlds(maxActions, maxAgenda) ==
    [actions : Listings(maxActions), agenda : SeqsOf(Rules, 0, maxAgenda)]

\* The offline_search_output argument: None, or a list of logical forms.
NoSearchOutput == [given |-> FALSE, forms |-> <<>>]

SearchOutputs(maxSymbols) ==
    {NoSearchOutput}
    \cup [given : {TRUE},
          forms : UNION {FormListsOfSize(Rules, s) : s \in 0..maxSymbols}]

Configs ==
    [offline_logical_forms_directory : BOOLEAN,
     keep_if_no_logical_forms : BOOLEAN,
     output_agendas : BOOLEAN,
     max_offline_logical_forms : 0..MaxCap]

-----------------------------------------------------------------------------
(* text_to_instance *)

\* production_rule_fields / action_field: one ProductionRuleField per rule of
\* world.all_possible_actions(), in that order; a field is modelled by its
\* .rule.
ActionField(w) == w.actions

\* A dict that keeps the first value of a key: the map would send a rule
\* listed twice to its first position.
DictPutIfAbsent(m, k, v) ==
    [x \in DOMAIN m \cup {k} |-> IF x \in DOMAIN m THEN m[x] ELSE v]

\* dict assignment m[k] = v
DictPut(m, k, v) == [x \in DOMAIN m \cup {k} |-> IF x = k THEN v ELSE m[x]]

RECURSIVE ActionMapFrom(_, _, _)
ActionMapFrom(field_list, i, m) ==
    IF i > Len(field_list) THEN m
    ELSE ActionMapFrom(field_list, i + 1, DictPut(m, field_list[i], i - 1))

\* action_map = {action.rule: i for i, action in enumerate(action_field.field_list)}
ActionMap(field_list) == ActionMapFrom(field_list, 1, <<>>)

\* The inner loop stopping at a missing rule without raising: the rules
\* before it would be accepted as a sequence.
RECURSIVE IndexFieldsFromTruncating(_, _, _, _)
IndexFieldsFromTruncating(action_sequence, i, action_map, index_fields) ==
    IF i > Len(action_sequence) THEN [key_error |-> FALSE, index_fields |-> index_fields]
    ELSE IF action_sequence[i] \notin DOMAIN action_map
         THEN [key_error |-> FALSE, index_fields |-> index_fields]
         ELSE IndexFieldsFromTruncating(action_sequence, i + 1, action_map,
                              Append(index_fields, action_map[action_sequence[i]]))

\* The inner loop over one action_sequence: index_fields so far, and whether
\* action_map[production_rule] raised KeyError.
RECURSIVE IndexFieldsFrom(_, _, _, _)
IndexFieldsFrom(action_sequence, i, action_map, index_fields) ==
    IF i > Len(action_sequence) THEN [key_error |-> FALSE, index_fields |-> index_fields]
    ELSE IF action_sequence[i] \notin DOMAIN action_map
         THEN [key_error |-> TRUE, index_fields |-> index_fields]
         ELSE IndexFieldsFrom(action_sequence, i + 1, action_map,
                              Append(index_fields, action_map[action_sequence[i]]))

IndexFields(action_sequence, action_map) ==
    IndexFieldsFrom(action_sequence, 1, action_map, <<>>)

\* The loop over offline_search_output, from its i-th logical form on.
\* considered is the number of logical forms the loop took.
RECURSIVE LogicalFormLoop(_, _, _, _, _)
LogicalFormLoop(forms, i, action_map, cap, action_sequence_fields) ==
    IF i > Len(forms)
    THEN [exc |-> "none", action_sequence_fields |-> action_sequence_fields,
          considered |-> Len(forms)]
    ELSE IF forms[i].parse = "ParsingError"
    THEN LogicalFormLoop(forms, i + 1, action_map, cap, action_sequence_fields)
    ELSE IF forms[i].parse # "ok"
    THEN [exc |-> forms[i].parse, action_sequence_fields |-> action_sequence_fields,
          considered |-> i]
    ELSE LET fields == IndexFields(forms[i].derivation, action_map) IN
         IF fields.key_error
         THEN LogicalFormLoop(forms, i + 1, action_map, cap, action_sequence_fields)
         ELSE LET appended == Append(action_sequence_fields, fields.index_fields) IN
              IF Len(appended) >= cap
              THEN [exc |-> "none", action_sequence_fields |-> appended,
                    considered |-> i]
              ELSE LogicalFormLoop(forms, i + 1, action_map, cap, appended)

\* The agenda loop without the `if not agenda_index_fields:` sentinel.
AgendaIndexFieldsNoSentinel(agenda, action_map) ==
    IF \E i \in DOMAIN agenda : agenda[i] \notin DOMAIN action_map
    THEN [key_error |-> TRUE, index_fields |-> <<>>]
    ELSE [key_error |-> FALSE,
          index_fields |-> [i \in DOMAIN agenda |-> action_map[agenda[i]]]]

\* The agenda loop passing over agenda strings that are not keys of
\* action_map, as the loop over the logical forms does with derivations.
RECURSIVE KnownAgendaIndices(_, _, _)
KnownAgendaIndices(agenda, i, action_map) ==
    IF i > Len(agenda) THEN <<>>
    ELSE IF agenda[i] \in DOMAIN action_map
         THEN <<action_map[agenda[i]]>> \o KnownAgendaIndices(agenda, i + 1, action_map)
         ELSE KnownAgendaIndices(agenda, i + 1, action_map)

AgendaIndexFieldsTolerant(agenda, action_map) ==
    LET known == KnownAgendaIndices(agenda, 1, action_map) IN
    [key_error |-> FALSE,
     index_fields |-> IF Len(known) = 0 THEN <<-1>> ELSE known]

\* The agenda loop: KeyError when an agenda string is not a key of action_map.
AgendaIndexFields(agenda, action_map) ==
    IF \E i \in DOMAIN agenda : agenda[i] \notin DOMAIN action_map
    THEN [key_error |-> TRUE, index_fields |-> <<>>]
    ELSE IF Len(agenda) = 0
    THEN [key_error |-> FALSE, index_fields |-> <<-1>>]
    ELSE [key_error |-> FALSE,
          index_fields |-> [i \in DOMAIN agenda |-> action_map[agenda[i]]]]

\* The fields every instance has.  question, table, world and target_values
\* are opaque here.
BaseFields(w) ==
    [question |-> <<>>, table |-> <<>>, world |-> <<>>,
     actions |-> ActionField(w), target_values |-> <<>>]

\* How a call ends: `return Instance(fields)`, `return None`, or an exception.
\* action_map and considered are the call's locals, kept for inspection.
Outcome(returned, exc, fields, action_map, considered) ==
    [returned |-> returned, exc |-> exc, fields |-> fields,
     action_map |-> action_map, considered |-> considered]

\* `if self._output_agendas:` ... `return Instance(fields)`
WithAgenda(w, cfg, fields, action_map, considered) ==
    IF cfg.output_agendas
    THEN LET agenda == AgendaIndexFields(w.agenda, action_map) IN
         IF agenda.key_error
         THEN Outcome("raised", "KeyError", <<>>, action_map, considered)
         ELSE Outcome("Instance", "none",
                      fields @@ [agenda |-> agenda.index_fields],
                      action_map, considered)
    ELSE Outcome("Instance", "none", fields, action_map, considered)

\* text_to_instance(question, table_lines, answer_json, offline_search_output)
TextToInstance(w, search_output, cfg) ==
    LET action_map == ActionMap(ActionField(w)) IN
    IF search_output.given /\ Len(search_output.forms) > 0
    THEN LET loop == LogicalFormLoop(search_output.forms, 1, action_map,
                                     cfg.max_offline_logical_forms, <<>>) IN
         IF loop.exc # "none"
         THEN Outcome("raised", loop.exc, <<>>, action_map, loop.considered)
         ELSE IF Len(loop.action_sequence_fields) = 0
         THEN Outcome("None", "none", <<>>, action_map, loop.considered)
         ELSE WithAgenda(w, cfg,
                         BaseFields(w) @@
                           [target_action_sequences |-> loop.action_sequence_fields],
                         action_map, loop.considered)
    ELSE WithAgenda(w, cfg, BaseFields(w), action_map, 0)

NoResult == Outcome("nothing", "none", <<>>, <<>>, 0)

\* What a step of _read did: which file the qa pair's candidates came from,
\* whether text_to_instance was called, how the step ended, and the counters
\* as they were before it.
Event(kind, lf_file, called, outcome, before) ==
    [kind |-> kind, lf_file |-> lf_file, called |-> called, outcome |-> outcome,
     before |-> before]

NoEvent ==
    Event("none", "-", FALSE, "-",
          [num_missing_logical_forms |-> 0, num_qa_json |-> 0,
           num_missing_tables |-> 0, num_all_tables |-> 0, num_instances |-> 0])

-----------------------------------------------------------------------------
(* Specification TextToInstanceSpec: one call of text_to_instance.  The     *)
(* call is made either without agenda output (get_agenda() is not called)   *)
(* on any candidate list within the bounds, or with agenda output on any    *)
(* agenda within the bounds and a candidate list of at most one form.       *)

TextToInstanceInit ==
    /\ config \in [offline_logical_forms_directory : {TRUE},
                   keep_if_no_logical_forms : {FALSE},
                   output_agendas : BOOLEAN,
                   max_offline_logical_forms : 0..MaxCap]
    /\ pc = "call"
    /\ \/ /\ ~config.output_agendas
          /\ world \in Worlds(MaxActions, 0)
          /\ offline_search_output \in SearchOutputs(MaxSymbols)
       \/ /\ config.output_agendas
          /\ world \in Worlds(MaxActions, MaxAgenda)
          /\ offline_search_output \in SearchOutputs(1)
    /\ result = NoResult
    /\ num_missing_logical_forms = 0
    /\ num_qa_json = 0
    /\ num_missing_tables = 0
    /\ num_all_tables = 0
    /\ num_instances = 0
    /\ passage_index = 0
    /\ qa_index = 0
    /\ passage = [table_present |-> TRUE, num_qa_pairs |-> 0]
    /\ yielded = <<0, 0>>
    /\ event = NoEvent

CallTextToInstance ==
    /\ pc = "call"
    /\ result' = TextToInstance(world, offline_search_output, config)
    /\ pc' = "returned"
    /\ UNCHANGED <<config, world, offline_search_output,
                   num_missing_logical_forms, num_qa_json, num_missing_tables,
                   num_all_tables, num_instances, passage_index, qa_index,
                   passage, yielded, event>>

TextToInstanceNext == CallTextToInstance

TextToInstanceSpec == TextToInstanceInit /\ [][TextToInstanceNext]_vars

-----------------------------------------------------------------------------
(* _read *)

\* The <query_id>.gz artifact of one QA pair: absent, or its lines.
Artifacts(lists) ==
    {[present |-> FALSE, lines |-> <<>>]} \cup [present : {TRUE}, lines : lists]

NoWorld == [actions |-> <<>>, agenda |-> <<>>]

Counters ==
    [num_missing_logical_forms |-> num_missing_logical_forms,
     num_qa_json |-> num_qa_json,
     num_missing_tables |-> num_missing_tables,
     num_all_tables |-> num_all_tables,
     num_instances |-> num_instances]

\* The configurations _read is run under.  How the cap acts is the matter
\* of TextToInstanceSpec; here it is the largest one.
ReadConfigs == {c \in Configs : c.max_offline_logical_forms = MaxCap}

\* The qa pairs _read meets are the smallest that make a call of
\* text_to_instance end in each of its ways; the call itself is explored in
\* TextToInstanceSpec.  Their worlds list rule 1 only, so that rule 2 is a
\* rule outside the action space; get_agenda() is not called when agenda
\* output is off.
ReadWorlds(cfg) ==
    {[actions |-> <<1>>, agenda |-> a] :
        a \in IF cfg.output_agendas THEN {<<>>, <<1>>, <<2>>} ELSE {<<>>}}

\* Their artifacts are absent, empty, or hold one logical form.  No artifact
\* is looked for when no logical-forms directory is configured.
ReadArtifacts(cfg) ==
    {a \in Artifacts({<<>>} \cup FormListsOfSize({1, 2}, 1)) :
        ~cfg.offline_logical_forms_directory => ~a.present}

ReadInit ==
    /\ config \in ReadConfigs
    /\ pc = "passages"
    /\ world = NoWorld
    /\ offline_search_output = NoSearchOutput
    /\ result = NoResult
    /\ num_missing_logical_forms = 0
    /\ num_qa_json = 0
    /\ num_missing_tables = 0
    /\ num_all_tables = 0
    /\ num_instances = 0
    /\ passage_index = 0
    /\ qa_index = 0
    /\ passage = [table_present |-> TRUE, num_qa_pairs |-> 0]
    /\ yielded = <<0, 0>>
    /\ event = NoEvent

\* Where the generator goes after the qa pair numbered q of the current passage.
AfterQaPair(q) == IF q < passage.num_qa_pairs THEN "qa_pairs" ELSE "passages"

\* A loop over qa_pairs that takes them last to first.
QaPairNumberBackwards(taken, n) == n - taken

\* The number, in the passage, of the qa pair the loop takes after `taken`
\* of its n qa pairs.
QaPairNumber(taken, n) == taken + 1

\* `for passage_id, passage_data in data.items():` up to the first qa pair:
\* num_all_tables += 1, then open(table_filename), which raises
\* FileNotFoundError when the table artifact is absent.
NextPassage ==
    /\ pc = "passages"
    /\ passage_index < MaxPassages
    /\ \E table_present \in BOOLEAN, n \in 0..MaxQaPairs :
          /\ passage' = [table_present |-> table_present, num_qa_pairs |-> n]
          /\ num_missing_tables' =
                IF table_present THEN num_missing_tables ELSE num_missing_tables + 1
          /\ pc' = IF table_present /\ n > 0 THEN "qa_pairs" ELSE "passages"
          /\ event' = Event("passage", "-", FALSE,
                             IF table_present THEN "opened" ELSE "missing_table",
                             Counters)
    /\ num_all_tables' = num_all_tables + 1
    /\ passage_index' = passage_index + 1
    /\ qa_index' = 0
    /\ world' = NoWorld
    /\ offline_search_output' = NoSearchOutput
    /\ result' = NoResult
    /\ UNCHANGED <<config, num_missing_logical_forms, num_qa_json, num_instances,
                   yielded>>

\* `yield instance`: the instance of the qa pair tagged <<passage, qa pair>>
\* is handed to the consumer.
Yield(out, tag) == tag

\* Lines 122-137 without the keep_if_no_logical_forms test: a qa pair
\* without artifact is always passed over.
LogicalFormsForAlwaysSkipping(cfg, artifact) ==
    IF cfg.offline_logical_forms_directory
    THEN IF artifact.present
         THEN [skip |-> FALSE, missing |-> FALSE,
               logical_forms |-> [given |-> TRUE, forms |-> artifact.lines]]
         ELSE [skip |-> TRUE, missing |-> TRUE, logical_forms |-> NoSearchOutput]
    ELSE [skip |-> FALSE, missing |-> FALSE, logical_forms |-> NoSearchOutput]

\* Lines 122-137: the candidates of one qa pair.  skip is the `continue` of
\* line 135; missing says that gzip.open raised FileNotFoundError.
LogicalFormsFor(cfg, artifact) ==
    IF cfg.offline_logical_forms_directory
    THEN IF artifact.present
         THEN [skip |-> FALSE, missing |-> FALSE,
               logical_forms |-> [given |-> TRUE, forms |-> artifact.lines]]
         ELSE [skip |-> ~cfg.keep_if_no_logical_forms, missing |-> TRUE,
               logical_forms |-> NoSearchOutput]
    ELSE [skip |-> FALSE, missing |-> FALSE, logical_forms |-> NoSearchOutput]

\* _read without the `if instance is not None:` test.
DispositionWithoutNoneTest(r) ==
    IF r.returned \in {"Instance", "None"} THEN "yielded"
    ELSE IF r.exc = "FileNotFoundError" THEN "absorbed"
    ELSE "raised"

\* What _read does with the way text_to_instance ended: count and yield an
\* instance, pass over None, take a FileNotFoundError for a missing table
\* (line 147) and leave the passage, let any other exception out.
Disposition(r) ==
    IF r.returned = "Instance" THEN "yielded"
    ELSE IF r.returned = "None" THEN "dropped"
    ELSE IF r.exc = "FileNotFoundError" THEN "absorbed"
    ELSE "raised"

\* One turn of `for qa_data in passage_data["qa_pairs"]:` with the qa pair's
\* world and logical-forms artifact.
QaPair(w, artifact) ==
    LET lfs == LogicalFormsFor(config, artifact)
        q == qa_index + 1
        file == IF ~config.offline_logical_forms_directory THEN "nodir"
                ELSE IF artifact.present THEN "present" ELSE "absent"
    IN
    /\ num_qa_json' = num_qa_json + 1
    /\ qa_index' = q
    /\ num_missing_logical_forms' =
          IF lfs.missing THEN num_missing_logical_forms + 1
          ELSE num_missing_logical_forms
    /\ IF lfs.skip
       THEN /\ pc' = AfterQaPair(q)
            /\ event' = Event("qa_pair", file, FALSE, "skipped", Counters)
            /\ world' = NoWorld
            /\ offline_search_output' = NoSearchOutput
            /\ result' = NoResult
            /\ UNCHANGED <<num_instances, num_missing_tables, yielded>>
       ELSE LET r == TextToInstance(w, lfs.logical_forms, config)
                d == Disposition(r)
            IN /\ world' = w
               /\ offline_search_output' = lfs.logical_forms
               /\ result' = r
               /\ event' = Event("qa_pair", file, TRUE, d, Counters)
               /\ num_instances' = IF d = "yielded" THEN num_instances + 1
                                   ELSE num_instances
               /\ yielded' = IF d = "yielded"
                             THEN Yield(yielded,
                                        <<passage_index,
                                          QaPairNumber(qa_index, passage.num_qa_pairs)>>)
                             ELSE yielded
               /\ num_missing_tables' = IF d = "absorbed" THEN num_missing_tables + 1
                                        ELSE num_missing_tables
               /\ pc' = CASE d = "raised" -> "raised"
                          [] d = "absorbed" -> "passages"
                          [] OTHER -> AfterQaPair(q)

NextQaPair ==
    /\ pc = "qa_pairs"
    /\ \E w \in ReadWorlds(config), artifact \in ReadArtifacts(config) :
          QaPair(w, artifact)
    /\ UNCHANGED <<config, num_all_tables, passage_index, passage>>

\* The passages are exhausted: the summary is logged and the generator ends.
Finish ==
    /\ pc = "passages"
    /\ pc' = "done"
    /\ event' = Event("finish", "-", FALSE, "-", Counters)
    /\ world' = NoWorld
    /\ offline_search_output' = NoSearchOutput
    /\ result' = NoResult
    /\ UNCHANGED <<config, num_missing_logical_forms, num_qa_json, num_missing_tables,
                   num_all_tables, num_instances, passage_index, qa_index,
                   passage, yielded>>

Next == NextPassage \/ NextQaPair \/ Finish

Spec == ReadInit /\ [][Next]_vars

-----------------------------------------------------------------------------
(* What the claims speak of, stated on the inputs of the call, not through  *)
(* the operators above.                                                     *)

\* The rule strings of the latest call's action list.
ListedRules == {world.actions[j] : j \in DOMAIN world.actions}

\* A candidate that parses and whose every derivation rule is listed.
ValidForm(f) ==
    /\ f.parse = "ok"
    /\ \A k \in DOMAIN f.derivation : f.derivation[k] \in ListedRules

ValidPositions == {i \in DOMAIN offline_search_output.forms :
                      ValidForm(offline_search_output.forms[i])}

NumValid == Cardinality(ValidPositions)

\* Position in the input of the k-th valid candidate, 1 <= k <= NumValid.
KthValid(k) == CHOOSE i \in ValidPositions :
                  Cardinality({j \in ValidPositions : j <= i}) = k

InstanceReturned == pc = "returned" /\ result.returned = "Instance"

HasSequences == "target_action_sequences" \in DOMAIN result.fields

\* The s-th accepted sequence is the derivation of the s-th valid candidate,
\* rule by rule, through valid positions of the action list.
SequenceMatchesKthValid(s) ==
    LET sequence == result.fields.target_action_sequences[s]
        derivation == offline_search_output.forms[KthValid(s)].derivation
        actions == result.fields.actions
    IN /\ Len(sequence) = Len(derivation)
       /\ \A k \in DOMAIN sequence :
             /\ sequence[k] \in 0..(Len(actions) - 1)
             /\ actions[sequence[k] + 1] = derivation[k]

\* The loop took no candidate after the one that filled the cap (all of
\* them when the cap was not reached).
StoppedAtCap(cap) ==
    IF NumValid >= cap /\ cap >= 1
    THEN result.considered = KthValid(cap)
    ELSE result.considered = Len(offline_search_output.forms)

\* C1: an instance built from a candidate list with cap C has exactly
\* min(C, V) accepted sequences, V the number of valid candidates; they are
\* the first valid candidates in input order; no candidate after the one
\* that reaches the cap is considered.
C1_AcceptedIsMinCapValid ==
    (InstanceReturned /\ HasSequences) =>
        LET cap == config.max_offline_logical_forms
            accepted == result.fields.target_action_sequences
        IN /\ Len(accepted) = Min(cap, NumValid)
           /\ \A s \in DOMAIN accepted : SequenceMatchesKthValid(s)
           /\ StoppedAtCap(cap)

\* The same for a cap of at least 1, where the code agrees with C1.
AcceptedIsMinCapValidForPositiveCap ==
    (InstanceReturned /\ HasSequences /\ config.max_offline_logical_forms >= 1) =>
        C1_AcceptedIsMinCapValid

\* A cap reached before the end of the list: a later valid candidate is left out.
CapReachedEarly ==
    /\ InstanceReturned /\ HasSequences
    /\ config.max_offline_logical_forms = 1
    /\ NumValid = 2
    /\ Len(result.fields.target_action_sequences) = 1

\* C3: every index of every accepted sequence is a position 0..N-1 of the
\* instance's action list holding the rule string of the corresponding
\* derivation step; a candidate with a derivation rule missing from the
\* action map contributes nothing, not even a truncated sequence.
C3_IndicesDecodeToDerivation ==
    (InstanceReturned /\ HasSequences) =>
        LET accepted == result.fields.target_action_sequences
        IN /\ Len(accepted) <= NumValid
           /\ \A s \in DOMAIN accepted : SequenceMatchesKthValid(s)

\* A candidate whose second rule is missing was skipped whole, and a later
\* two-step candidate was accepted.
C3_Witness ==
    /\ InstanceReturned /\ HasSequences
    /\ \E i \in DOMAIN offline_search_output.forms :
          LET f == offline_search_output.forms[i] IN
          /\ f.parse = "ok" /\ Len(f.derivation) = 2
          /\ f.derivation[1] \in ListedRules
          /\ f.derivation[2] \notin ListedRules
          /\ \E j \in ValidPositions : j > i
    /\ \E s \in DOMAIN result.fields.target_action_sequences :
          Len(result.fields.target_action_sequences[s]) >= 1

Injective(m) == \A a, b \in DOMAIN m : m[a] = m[b] => a = b

Range(m) == {m[a] : a \in DOMAIN m}

\* C4: for every emitted instance the action map is a bijection between
\* the rule strings and 0..N-1, N the number of rules all_possible_actions()
\* returned.
C4_ActionMapIsBijection ==
    InstanceReturned =>
        /\ DOMAIN result.action_map = ListedRules
        /\ Injective(result.action_map)
        /\ Range(result.action_map) = 0..(Len(world.actions) - 1)

NoDuplicateRules ==
    \A i, j \in DOMAIN world.actions : world.actions[i] = world.actions[j] => i = j

\* C4 as amended: the action map sends each listed rule string to the last
\* position (from 0) at which it is listed; it is one-to-one into 0..N-1,
\* and onto 0..N-1 exactly when no rule string is listed twice.
C4_ActionMapIsLastPosition ==
    InstanceReturned =>
        /\ DOMAIN result.action_map = ListedRules
        /\ \A r \in ListedRules :
              /\ result.action_map[r] \in 0..(Len(world.actions) - 1)
              /\ world.actions[result.action_map[r] + 1] = r
              /\ \A j \in DOMAIN world.actions :
                    world.actions[j] = r => j - 1 <= result.action_map[r]
        /\ Injective(result.action_map)
        /\ (Range(result.action_map) = 0..(Len(world.actions) - 1)) <=> NoDuplicateRules

\* An instance over two distinct rules, the second mapped to 1.
C4_Witness ==
    /\ InstanceReturned
    /\ Len(world.actions) = 2
    /\ NoDuplicateRules
    /\ result.action_map[world.actions[2]] = 1

\* C5: with agenda output enabled the agenda field of an emitted instance is
\* never empty: [-1] for an empty agenda, otherwise the action-map indices of
\* the agenda rules in agenda order, none of them -1.
C5_AgendaFieldShape ==
    (InstanceReturned /\ config.output_agendas) =>
        /\ "agenda" \in DOMAIN result.fields
        /\ LET field == result.fields.agenda IN
           /\ Len(field) >= 1
           /\ world.agenda = <<>> => field = <<-1>>
           /\ world.agenda # <<>> =>
                 /\ Len(field) = Len(world.agenda)
                 /\ \A i \in DOMAIN field :
                       /\ field[i] = result.action_map[world.agenda[i]]
                       /\ field[i] # -1

\* An instance with candidates accepted and an empty agenda carries the sentinel.
C5_Witness ==
    /\ InstanceReturned /\ config.output_agendas
    /\ HasSequences
    /\ world.agenda = <<>>
    /\ result.fields.agenda = <<-1>>

-----------------------------------------------------------------------------
(* Claims on _read *)

\* The latest step of _read took a qa pair; ...and called text_to_instance.
QaPairTaken == event.kind = "qa_pair"

Called == QaPairTaken /\ event.called

\* A non-empty candidate list was handed to the latest call.
Supplied == offline_search_output.given /\ Len(offline_search_output.forms) > 0

\* The tag of the qa pair of the latest step.
CurrentTag == <<passage_index, qa_index>>

\* The instance yielded last is that of the qa pair with this tag.
YieldedFor(tag) == yielded = tag

\* The instance has the five fields every instance has.
Populated(fields) ==
    {"question", "table", "world", "actions", "target_values"} \subseteq DOMAIN fields

\* The part of C2 about text_to_instance alone, for a call made by _read or
\* on its own.
ReturnsNoneIffNoneSurvive ==
    (Called \/ pc = "returned") =>
        /\ (Supplied /\ NumValid = 0) =>
              /\ result.returned # "Instance"
              /\ result.exc = "none" => result.returned = "None"
        /\ (result.exc = "none" /\ ~(Supplied /\ NumValid = 0)) =>
              /\ result.returned = "Instance"
              /\ Populated(result.fields)

\* C2: a non-empty candidate list of which no candidate survives validation
\* gives no instance, and _read neither yields nor counts the qa pair; every
\* other call that ends without an exception returns a populated instance.
C2_NoInstanceIffNoneSurvive ==
    /\ ReturnsNoneIffNoneSurvive
    /\ (Called /\ Supplied /\ NumValid = 0) =>
          /\ event.outcome # "yielded"
          /\ ~YieldedFor(CurrentTag)
          /\ num_instances = event.before.num_instances

\* A qa pair whose only candidate names an unlisted rule was dropped after an
\* earlier one was yielded.
C2_Witness ==
    /\ Called /\ Supplied /\ NumValid = 0
    /\ \E i \in DOMAIN offline_search_output.forms :
          offline_search_output.forms[i].parse = "ok"
    /\ result.returned = "None"
    /\ event.outcome = "dropped"
    /\ num_instances = 1

\* C6: a passage whose table artifact is absent emits nothing, adds exactly
\* 1 to the missing-table counter however many qa pairs it has, and reading
\* goes on with the next passage; the counter grows only for such passages.
C6_MissingTableCountsAbsentTables ==
    /\ (event.kind = "passage" /\ ~passage.table_present) =>
          /\ num_missing_tables = event.before.num_missing_tables + 1
          /\ num_instances = event.before.num_instances
          /\ yielded[1] # passage_index
          /\ pc = "passages"
    /\ num_missing_tables # event.before.num_missing_tables =>
          ~passage.table_present

\* The part of C6 about passages whose table is absent.
MissingTableSkipsPassage ==
    (event.kind = "passage" /\ ~passage.table_present) =>
        /\ num_missing_tables = event.before.num_missing_tables + 1
        /\ num_instances = event.before.num_instances
        /\ yielded[1] # passage_index
        /\ pc = "passages"

\* With agenda output on, the agenda of the latest call names a rule that is
\* not listed.
AgendaRuleMissing ==
    /\ config.output_agendas
    /\ \E i \in DOMAIN world.agenda : world.agenda[i] \notin ListedRules

NoSequencesField == "target_action_sequences" \notin DOMAIN result.fields

Before(a, b) == a[1] < b[1] \/ (a[1] = b[1] /\ a[2] < b[2])

\* C8: the instances are yielded in input order, at most one per qa pair:
\* whenever _read yields, the qa pair of the instance comes after the qa pair
\* of the instance yielded before it.
C8_YieldedInInputOrder ==
    [][(yielded' # yielded \/ num_instances' # num_instances) =>
          /\ Before(yielded, yielded')
          /\ num_instances' = num_instances + 1]_vars

\* Both qa pairs of the first passage and both of the second were yielded.
C8_Witness ==
    /\ num_instances = 4
    /\ yielded = <<2, 2>>

UnexpectedKinds == ParseOutcomes \ {"ok", "ParsingError"}

\* C9: a parse failure of any kind but ParsingError leaves text_to_instance
\* and _read: the read is over, and neither the missing-table nor the
\* missing-logical-forms counter takes it.
C9_UnexpectedParseFailureEndsRead ==
    (Called /\ result.exc \in UnexpectedKinds) =>
        /\ pc = "raised"
        /\ num_missing_tables = event.before.num_missing_tables
        /\ num_missing_logical_forms = event.before.num_missing_logical_forms

\* C9 for the failure kinds that _read's handlers do not name.
OtherParseFailureEndsRead ==
    (Called /\ result.exc \in UnexpectedKinds \ {"FileNotFoundError"}) =>
        C9_UnexpectedParseFailureEndsRead

\* C10: with agenda output on, an agenda rule that is not in the action map
\* fails the run for every qa pair text_to_instance is called for, those
\* whose candidates all fail validation included: nothing is emitted for the
\* pair and the read does not go on.  (Calls that a parse failure ended
\* before are the matter of C9 and left aside.)
C10_AgendaRuleMissingFailsRun ==
    (Called /\ AgendaRuleMissing /\ result.exc \notin UnexpectedKinds) =>
        /\ pc = "raised"
        /\ event.outcome = "raised"
        /\ ~YieldedFor(CurrentTag)

\* The call got as far as the agenda: no candidates were supplied, or one
\* was accepted and no parse raised.
AgendaReached ==
    \/ ~Supplied
    \/ NumValid >= 1 /\ result.exc \notin UnexpectedKinds

\* C10 as amended: the same for every qa pair whose call gets as far as the
\* agenda.  A call whose candidates all fail validation returns None before
\* the agenda is looked at, and the read goes on.
C10_AgendaRuleMissingFailsRunWhenReached ==
    (Called /\ AgendaRuleMissing /\ AgendaReached) =>
        /\ pc = "raised"
        /\ event.outcome = "raised"
        /\ result.exc = "KeyError"
        /\ ~YieldedFor(CurrentTag)
        /\ num_instances = event.before.num_instances
        /\ num_missing_tables = event.before.num_missing_tables

\* An accepted candidate, then the agenda's unlisted rule ended the read.
C10_Witness ==
    /\ Called /\ AgendaRuleMissing
    /\ Supplied /\ NumValid >= 1
    /\ result.exc = "KeyError"
    /\ pc = "raised"

=============================================================================
